---------------------------- MODULE Spec2Model ----------------------------
(***************************************************************************)
(* The interactive commit-message session of gity / ai-commit and the LLM  *)
(* provider abstraction it uses.                                           *)
(*                                                                         *)
(* Strings whose characters matter (diffs, model outputs, commit messages, *)
(* input lines, provider identifiers) are sequences of one-character       *)
(* strings.  Values that are only tested for truthiness (API keys) are     *)
(* TLA+ strings, with `undefined` standing for an unset variable.          *)
(***************************************************************************)
EXTENDS Integers, Sequences, FiniteSets, TLC

VARIABLES
    program,        \* which entry script runs: "gity" (src/gity.ts) or "ai-commit" (part_004)
    argv2,          \* process.argv[2]
    env,            \* process.env: LLM_PROVIDER, OPENAI_API_KEY, ANTHROPIC_API_KEY
    API_KEY,        \* module-level const API_KEY = getApiKey()
    pc,             \* position of the process
    diffReads,      \* number of `git diff --cached` invocations
    diff,           \* const diff of main()
    call,           \* the current / last invocation of a provider's generateCommit
    netRequests,    \* number of fetch() requests sent
    failLogs,       \* number of "Failed to generate commit message" lines on stderr
    commitMessage,  \* let commitMessage of main()
    displayed,      \* number of candidates printed
    display,        \* the candidate printed last
    prompts,        \* number of rl.question() calls
    answers,        \* number of input lines handled by the question callback
    answer,         \* the input line handled last
    branch,         \* the branch of the callback's if-chain taken last
    edits,          \* number of edit steps started
    tempFile,       \* TEMP_FILE on disk
    commitCalls,    \* number of `git commit` invocations
    commitArg,      \* the text interpolated into the last `git commit -m "..."`
    committed,      \* whether git made a commit, and the -m argument it received
    fatal,          \* the fatal diagnostic printed before process.exit(1), if any
    exitCode,       \* process exit code, NoExit while running
    ignoredLines,   \* input lines received during the request in flight
    menu            \* the interactive command menu: its items and local variables

vars == <<program, argv2, env, API_KEY, pc, diffReads, diff, call, netRequests,
          failLogs, commitMessage, displayed, display, prompts, answers, answer,
          branch, edits, tempFile, commitCalls, commitArg, committed,
          fatal, exitCode, ignoredLines, menu>>

-----------------------------------------------------------------------------
(* Bounds *)

MaxLen == 3         \* longest raw model output
MaxCalls == 3       \* provider calls per session (1 + regenerates)
MaxEdits == 2       \* edit steps per session
MaxIgnored == 1     \* input lines typed while a request is in flight
MaxItems == 12      \* longest command menu

-----------------------------------------------------------------------------
(* Characters and strings *)

Q == "\""

undefined == "<undefined>"

NoExit == -1

UpperChars == <<"A","B","C","D","E","F","G","H","I","J","K","L","M",
                "N","O","P","Q","R","S","T","U","V","W","X","Y","Z">>

LowerChars == <<"a","b","c","d","e","f","g","h","i","j","k","l","m",
                "n","o","p","q","r","s","t","u","v","w","x","y","z">>

LowerOf(c) ==
    IF \E i \in 1..26 : UpperChars[i] = c
    THEN LowerChars[CHOOSE i \in 1..26 : UpperChars[i] = c]
    ELSE c

toLowerCase(s) == [i \in 1..Len(s) |-> LowerOf(s[i])]

IsWhitespace(c) == c \in {" ", "\n", "\t"}

\* trim that removes nothing
trimNothing(s) == s

\* trim that removes leading whitespace only
trimStart(s) ==
    LET keep == {i \in 1..Len(s) : ~IsWhitespace(s[i])}
    IN  IF keep = {} THEN <<>>
        ELSE SubSeq(s, CHOOSE i \in keep : \A j \in keep : i <= j, Len(s))

trim(s) ==
    LET keep == {i \in 1..Len(s) : ~IsWhitespace(s[i])}
    IN  IF keep = {} THEN <<>>
        ELSE SubSeq(s, CHOOSE i \in keep : \A j \in keep : i <= j,
                       CHOOSE i \in keep : \A j \in keep : i >= j)

Truthy(v) == v # undefined /\ v # ""

SeqsUpTo(S, n) == UNION {[1..k -> S] : k \in 0..n}

\* JavaScript numbers: an integer, NaN, or no number at all (undefined)
Num(n) == [t |-> "number", n |-> n]

NaN == [t |-> "NaN", n |-> 0]

NoNumber == [t |-> "undefined", n |-> 0]

DigitChars == <<"0","1","2","3","4","5","6","7","8","9">>

IsDigit(c) == \E i \in 1..10 : DigitChars[i] = c

DigitValue(c) == (CHOOSE i \in 1..10 : DigitChars[i] = c) - 1

\* the value of the digits of s from position i on, after the value acc
RECURSIVE ParseDigits(_, _, _)
ParseDigits(s, i, acc) ==
    IF i > Len(s) \/ ~IsDigit(s[i]) THEN acc
    ELSE ParseDigits(s, i + 1, acc * 10 + DigitValue(s[i]))

\* parseInt(s): leading whitespace and a sign are skipped, digits are read up
\* to the first other character, NaN when there is no digit
parseInt(s) ==
    LET t == IF \A i \in 1..Len(s) : IsWhitespace(s[i]) THEN <<>>
             ELSE SubSeq(s, CHOOSE i \in 1..Len(s) :
                               /\ ~IsWhitespace(s[i])
                               /\ \A j \in 1..(i - 1) : IsWhitespace(s[j]),
                         Len(s))
        signed == t # <<>> /\ t[1] \in {"-", "+"}
        d == IF signed THEN Tail(t) ELSE t
    IN  IF d = <<>> \/ ~IsDigit(d[1]) THEN NaN
        ELSE Num((IF signed /\ t[1] = "-" THEN -1 ELSE 1) * ParseDigits(d, 1, 0))


-----------------------------------------------------------------------------
(* The interactive command menu: values *)

\* the promise of showInteractiveMenu before it is resolved, and resolve(null)
Pending == "<pending>"

Null == "<null>"

\* showInteractiveMenu has not been called
NoMenu ==
    [items |-> <<>>, selectedIndex |-> 0, scrollOffset |-> 0, menuHeight |-> 0,
     listening |-> FALSE, rawMode |-> FALSE, key |-> <<>>, result |-> Pending]

-----------------------------------------------------------------------------
(* Input domains *)

S_openai == <<"o","p","e","n","a","i">>

S_anthropic == <<"a","n","t","h","r","o","p","i","c">>

\* values of process.env.LLM_PROVIDER; <<>> is the unset (or empty) variable
ProviderNames ==
    { <<>>, S_openai, <<"O","p","e","n","A","I">>,
      S_anthropic, <<"A","N","T","H","R","O","P","I","C">>,
      <<"b","o","g","u","s">> }

UpperOf(c) ==
    IF \E i \in 1..26 : LowerChars[i] = c
    THEN UpperChars[CHOOSE i \in 1..26 : LowerChars[i] = c]
    ELSE c

\* the lower-case word s with every choice of letters capitalised
LetterCases(s) ==
    { [i \in 1..Len(s) |-> IF i \in U THEN UpperOf(s[i]) ELSE s[i]] :
        U \in SUBSET (1..Len(s)) }

\* identifiers that are neither provider's name
OtherNames ==
    { <<>>, <<"b","o","g","u","s">>, <<"o","p","e","n">>,
      <<"o","p","e","n","a","i"," ">>, <<"a","n","t","h","r","o","p","i">>,
      <<"c","l","a","u","d","e">> }

\* providerName arguments of generateCommit
Identifiers ==
    ProviderNames \cup LetterCases(S_openai) \cup LetterCases(S_anthropic)
                  \cup OtherNames

KeyValues == {undefined, "", "sk-key"}

\* values of process.env.LLM_MODEL
ModelNames == {undefined, "", "gpt-4o-mini"}

\* values of process.env.LLM_MAX_TOKENS; <<>> is the unset (or empty) variable
TokenStrings ==
    { <<>>, <<"0">>, <<"7">>, <<"5","0">>, <<"1","2","0">>, <<"-","1">>,
      <<" ","7","x">>, <<"a">> }

\* outputs of `git diff --cached`
Diffs == { <<>>, <<" ","\n">>, <<"+","a","\n">> }

\* characters of a raw model output
RawChars == {Q, "a"}

RawOutputs == SeqsUpTo(RawChars, MaxLen)

\* one line of user input, without its line terminator
Lines == { <<>>, <<"e">>, <<"r">>, <<"q">>, <<"E">>, <<"y">>, <<" ","e">>,
           <<"q","u","i","t">> }

\* what the editor may leave in the temporary file, besides the text it was given
EditorTexts == { <<>>, <<"b">>, <<" ","b","\n">> }

\* the raw model outputs that sessions are run with
SessionOutputs ==
    { <<>>, <<Q>>, <<"a">>, <<Q,"a",Q>>, <<Q,"a">>, <<"a",Q,Q>>, <<Q,Q,Q>> }

FALLBACK == <<"c","h","o","r","e",":"," ","u","p","d","a","t","e"," ","c","o","d","e">>

-----------------------------------------------------------------------------
(* HTTP responses as the providers see them *)

\* the value found at the end of an optional-chaining path
Undef == [t |-> "undefined", s |-> <<>>]

StrVal(s) == [t |-> "string", s |-> s]

\* a truthy value that is not a string (object, array, non-zero number, true)
OtherTruthy == [t |-> "object", s |-> <<>>]

\* a falsy value that is not a string (null, 0, false)
OtherFalsy == [t |-> "null", s |-> <<>>]

ContentVals == {Undef, OtherTruthy, OtherFalsy} \cup {StrVal(s) : s \in RawOutputs}

\* net:    "reject" when fetch() rejects, "response" when it resolves
\* ok:     whether the status is 2xx
\* json:   response.json() "throws", or yields "null", or yields an "object"
\* openai:     data.choices?.[0]?.message?.content
\* anthropic:  data.content?.[0]?.text
Response(net, ok, json, oa, an) ==
    [net |-> net, ok |-> ok, json |-> json, openai |-> oa, anthropic |-> an]

NoResponse == Response("none", FALSE, "none", Undef, Undef)

\* a response whose body carries the value v where the given provider reads it
BodyFor(provider, ok, v) ==
    IF provider = "OpenAI"
    THEN Response("response", ok, "object", v, Undef)
    ELSE Response("response", ok, "object", Undef, v)

\* what a request of the given provider may settle with: a network failure; a
\* body that is no JSON or is null; a 2xx body of the provider's API with any
\* content; a non-2xx body without or with a content; a body of the other API
ResponsesTo(provider) ==
    { Response("reject", FALSE, "none", Undef, Undef) }
    \cup { Response("response", ok, j, Undef, Undef) :
             ok \in BOOLEAN, j \in {"throws", "null"} }
    \cup { BodyFor(provider, TRUE, v) : v \in ContentVals }
    \cup { BodyFor(provider, FALSE, v) : v \in {Undef, StrVal(<<"a">>)} }
    \cup { BodyFor(IF provider = "OpenAI" THEN "Anthropic" ELSE "OpenAI",
                   TRUE, StrVal(<<"a">>)) }

\* the responses that sessions are run with: a network failure, a body that is
\* no JSON, a non-2xx body without content, and 2xx bodies of the provider's API
SessionResponsesTo(provider) ==
    { Response("reject", FALSE, "none", Undef, Undef),
      Response("response", TRUE, "throws", Undef, Undef),
      BodyFor(provider, FALSE, Undef) }
    \cup { BodyFor(provider, TRUE, v) :
             v \in {Undef, OtherTruthy} \cup {StrVal(m) : m \in SessionOutputs} }

JsTruthy(v) == v.t = "object" \/ (v.t = "string" /\ v.s # <<>>)

-----------------------------------------------------------------------------
(* llm-service *)

\* cleanLLMResponse removing the leading quote only
cleanLeadingOnly(text) ==
    IF text # <<>> /\ text[1] = Q /\ text[Len(text)] = Q
    THEN SubSeq(text, 2, Len(text))
    ELSE text

\* cleanLLMResponse returning the text as it is
cleanNothing(text) == text

cleanLLMResponse(text) ==
    IF text # <<>> /\ text[1] = Q /\ text[Len(text)] = Q
    THEN SubSeq(text, 2, Len(text) - 1)
    ELSE text

\* a catch clause that returns the empty message
CaughtEmpty == [value |-> <<>>, logged |-> TRUE]

\* the outcome of a generateCommit whose try block ended in the catch clause
Caught == [value |-> FALLBACK, logged |-> TRUE]

\* the part of a provider's generateCommit after `await response.json()`:
\* `content` is the value the provider's path selects from the body
FromContent(c) ==
    LET content == IF JsTruthy(c) THEN c ELSE StrVal(FALLBACK)
    IN  IF content.t = "string"
        THEN [value |-> cleanLLMResponse(content.s), logged |-> FALSE]
        ELSE Caught     \* text.startsWith is not a function

\* OpenAIProvider.generateCommit once fetch() has settled with response r
OpenAIGenerate(r) ==
    IF r.net = "reject" \/ r.json \in {"throws", "null"} THEN Caught
    ELSE FromContent(r.openai)

\* AnthropicProvider.generateCommit once fetch() has settled with response r
AnthropicGenerate(r) ==
    IF r.net = "reject" \/ r.json \in {"throws", "null"} THEN Caught
    ELSE FromContent(r.anthropic)

\* the guard of OpenAIProvider.generateCommit before the request
OpenAIMissingKey(config) == ~Truthy(config.apiKey)

\* a guard that lets the empty key through
MissingKeyUndefinedOnly(config) == config.apiKey = undefined

\* the guard of AnthropicProvider.generateCommit before the request
AnthropicMissingKey(config) == ~Truthy(config.apiKey)

\* getLLMProvider comparing the identifier as given
getLLMProviderExact(providerName) ==
    IF providerName = S_openai THEN "OpenAI"
    ELSE IF providerName = S_anthropic THEN "Anthropic"
    ELSE "OpenAI"

getLLMProvider(providerName) ==
    LET n == toLowerCase(providerName)
    IN  IF n = S_openai THEN "OpenAI"
        ELSE IF n = S_anthropic THEN "Anthropic"
        ELSE "OpenAI"

Generate(provider, r) ==
    IF provider = "OpenAI" THEN OpenAIGenerate(r) ELSE AnthropicGenerate(r)

\* the model and max_tokens members of the request body of OpenAIProvider
OpenAIRequest(config) ==
    [model |-> IF Truthy(config.model) THEN config.model ELSE "gpt-4",
     max_tokens |-> IF config.maxTokens.t = "number" /\ config.maxTokens.n # 0
                    THEN config.maxTokens ELSE Num(50)]

\* the model and max_tokens members of the request body of AnthropicProvider
AnthropicRequest(config) ==
    [model |-> IF Truthy(config.model) THEN config.model
               ELSE "claude-3-haiku-20240307",
     max_tokens |-> IF config.maxTokens.t = "number" /\ config.maxTokens.n # 0
                    THEN config.maxTokens ELSE Num(50)]

RequestBody(provider, config) ==
    IF provider = "OpenAI" THEN OpenAIRequest(config) ELSE AnthropicRequest(config)

NoRequest == [model |-> undefined, max_tokens |-> NoNumber]

MissingKey(provider, config) ==
    IF provider = "OpenAI" THEN OpenAIMissingKey(config)
    ELSE AnthropicMissingKey(config)

IdleCall ==
    [name |-> <<>>, provider |-> "none", diff |-> <<>>, apiKey |-> undefined,
     status |-> "idle", request |-> NoRequest,
     response |-> NoResponse, value |-> <<>>, logged |-> FALSE]

\* generateCommit(diff, providerName, config) up to its first suspension:
\* either the provider throws for the missing key or one request is in flight
Invoke(d, providerName, config) ==
    [name |-> providerName, provider |-> getLLMProvider(providerName), diff |-> d,
     apiKey |-> config.apiKey,
     status |-> IF MissingKey(getLLMProvider(providerName), config)
                THEN "rejected" ELSE "pending",
     request |-> IF MissingKey(getLLMProvider(providerName), config)
                 THEN NoRequest
                 ELSE RequestBody(getLLMProvider(providerName), config),
     response |-> NoResponse, value |-> <<>>, logged |-> FALSE]

\* the call c once its request has settled with response r
Settled(c, r) ==
    LET g == Generate(c.provider, r)
    IN  [c EXCEPT !.status = "resolved", !.response = r,
                  !.value = g.value, !.logged = g.logged]

-----------------------------------------------------------------------------
(* The entry script: module level *)

LLM_PROVIDER == IF env.LLM_PROVIDER = <<>> THEN S_openai ELSE env.LLM_PROVIDER

\* getApiKey reading the OpenAI key for every provider
getApiKeyOpenAIOnly == env.OPENAI_API_KEY

\* getApiKey comparing the identifier as given
getApiKeyExact ==
    IF LLM_PROVIDER = S_openai THEN env.OPENAI_API_KEY
    ELSE IF LLM_PROVIDER = S_anthropic THEN env.ANTHROPIC_API_KEY
    ELSE env.OPENAI_API_KEY

getApiKey ==
    LET n == toLowerCase(LLM_PROVIDER)
    IN  IF n = S_openai THEN env.OPENAI_API_KEY
        ELSE IF n = S_anthropic THEN env.ANTHROPIC_API_KEY
        ELSE env.OPENAI_API_KEY

LLM_MODEL == env.LLM_MODEL

LLM_MAX_TOKENS ==
    IF env.LLM_MAX_TOKENS # <<>> THEN parseInt(env.LLM_MAX_TOKENS) ELSE NoNumber

llmConfig == [apiKey |-> API_KEY, model |-> LLM_MODEL, maxTokens |-> LLM_MAX_TOKENS]

NoFile == [exists |-> FALSE, content |-> <<>>]

\* TEMP_FILE is one fixed path: a file that an earlier session left there
StaleFile == [exists |-> TRUE, content |-> <<"b">>]

NoCommit == [done |-> FALSE, message |-> <<>>]

Exit(code, msg) ==
    /\ pc' = "Exited"
    /\ exitCode' = code
    /\ fatal' = msg

\* gity takes the command "open"; ai-commit never reads process.argv
Init ==
    /\ program \in {"gity", "ai-commit"}
    /\ argv2 \in IF program = "gity" THEN {"", "open"} ELSE {""}
    /\ env \in [LLM_PROVIDER : ProviderNames, OPENAI_API_KEY : KeyValues,
                ANTHROPIC_API_KEY : KeyValues, LLM_MODEL : {undefined},
                LLM_MAX_TOKENS : {<<>>}]
    /\ API_KEY = undefined
    /\ pc = "Load"
    /\ diffReads = 0
    /\ diff = <<>>
    /\ call = IdleCall
    /\ netRequests = 0
    /\ failLogs = 0
    /\ commitMessage = <<>>
    /\ displayed = 0
    /\ display = <<>>
    /\ prompts = 0
    /\ answers = 0
    /\ answer = <<>>
    /\ branch = "none"
    /\ edits = 0
    /\ tempFile \in {NoFile, StaleFile}
    /\ commitCalls = 0
    /\ commitArg = <<>>
    /\ committed = NoCommit
    /\ fatal = ""
    /\ exitCode = NoExit
    /\ ignoredLines = 0
    /\ menu = NoMenu

\* whether the module-level key check applies: ai-commit always checks,
\* gity skips it for the command "open"
\* the API key check applied to every command
KeyCheckAlways == TRUE

KeyCheckApplies == program = "ai-commit" \/ argv2 # "open"

\* module load: dotenv, the constants, API_KEY and the API key check
Load ==
    /\ pc = "Load"
    /\ API_KEY' = getApiKey
    /\ IF ~Truthy(getApiKey) /\ KeyCheckApplies
       THEN Exit(1, "API key not found")
       ELSE /\ pc' = "Main"
            /\ UNCHANGED <<exitCode, fatal>>
    /\ UNCHANGED <<menu, ignoredLines, program, argv2, env, diffReads, diff, call, netRequests,
                   failLogs, commitMessage, displayed, display, prompts, answers,
                   answer, branch, edits, tempFile, commitCalls, commitArg, committed>>

IsOpenCommand == program = "gity" /\ argv2 = "open"

\* main(), command "open": openRepoInBrowser() exits 1 or returns
OpenRepo ==
    /\ pc = "Main"
    /\ IsOpenCommand
    /\ \E ok \in BOOLEAN :
          IF ok THEN Exit(0, "") ELSE Exit(1, "Error opening repository")
    /\ UNCHANGED <<menu, ignoredLines, program, argv2, env, API_KEY, diffReads, diff, call,
                   netRequests, failLogs, commitMessage, displayed, display,
                   prompts, answers, answer, branch, edits, tempFile,
                   commitCalls, commitArg, committed>>

\* main(): getGitDiff() fails, because execSync throws
DiffFails ==
    /\ pc = "Main"
    /\ ~IsOpenCommand
    /\ diffReads' = diffReads + 1
    /\ Exit(1, "Ensure you have Git installed and changes staged")
    /\ UNCHANGED <<menu, ignoredLines, program, argv2, env, API_KEY, diff, call, netRequests,
                   failLogs, commitMessage, displayed, display, prompts, answers,
                   answer, branch, edits, tempFile, commitCalls, commitArg, committed>>

\* main(): getGitDiff() returns d, and the session starts with the first
\* generateCommit unless d is blank
StartSession ==
    /\ pc = "Main"
    /\ ~IsOpenCommand
    /\ \E d \in Diffs, unstaged \in BOOLEAN :
        /\ diffReads' = diffReads + 1
        /\ diff' = d
        /\ IF trim(d) = <<>>
           THEN /\ IF program = "ai-commit" /\ unstaged
                   THEN Exit(1, "No staged changes found, but there are unstaged changes")
                   ELSE Exit(1, "No staged changes found")
                /\ UNCHANGED <<call, netRequests>>
           ELSE LET c == Invoke(d, LLM_PROVIDER, llmConfig)
                IN  /\ call' = c
                    /\ IF c.status = "rejected"
                       THEN /\ Exit(1, "Error generating commit message")
                            /\ UNCHANGED netRequests
                       ELSE /\ pc' = "Generating"
                            /\ netRequests' = netRequests + 1
                            /\ UNCHANGED <<exitCode, fatal>>
    /\ UNCHANGED <<menu, ignoredLines, program, argv2, env, API_KEY, failLogs, commitMessage,
                   displayed, display, prompts, answers, answer, branch, edits,
                   tempFile, commitCalls, commitArg, committed>>

\* LineIgnored where a line r typed during a request starts another request
LineStartsCall ==
    /\ pc \in {"Generating", "Regenerating"}
    /\ ignoredLines < MaxIgnored
    /\ \E line \in Lines :
          /\ ignoredLines' = ignoredLines + 1
          /\ netRequests' = IF line = <<"r">> THEN netRequests + 1 ELSE netRequests
    /\ UNCHANGED <<menu, program, argv2, env, API_KEY, pc, diffReads, diff, call,
                   failLogs, commitMessage, displayed, display,
                   prompts, answers, answer, branch, edits, tempFile,
                   commitCalls, commitArg, committed, fatal, exitCode>>

\* LineIgnored where a line typed during a request runs the commit
LineCommits ==
    /\ pc \in {"Generating", "Regenerating"}
    /\ ignoredLines < MaxIgnored
    /\ \E line \in Lines :
          /\ ignoredLines' = ignoredLines + 1
          /\ commitCalls' = IF line \notin {<<"e">>, <<"r">>, <<"q">>}
                            THEN commitCalls + 1
                            ELSE commitCalls
    /\ UNCHANGED <<menu, program, argv2, env, API_KEY, pc, diffReads, diff, call,
                   netRequests, failLogs, commitMessage, displayed, display,
                   prompts, answers, answer, branch, edits, tempFile,
                   commitArg, committed, fatal, exitCode>>

\* a line arrives on stdin while generateCommit is awaited: the readline
\* interface has no question pending and nothing listens to its line event
LineIgnored ==
    /\ pc \in {"Generating", "Regenerating"}
    /\ ignoredLines < MaxIgnored
    /\ \E line \in Lines : ignoredLines' = ignoredLines + 1
    /\ UNCHANGED <<menu, program, argv2, env, API_KEY, pc, diffReads, diff, call,
                   netRequests, failLogs, commitMessage, displayed, display,
                   prompts, answers, answer, branch, edits, tempFile,
                   commitCalls, commitArg, committed, fatal, exitCode>>

\* GenerateSettles where the provider sends the request again after a failure
GenerateSettlesRetries ==
    /\ pc \in {"Generating", "Regenerating"}
    /\ \E r \in SessionResponsesTo(call.provider) :
        LET c == Settled(call, r)
        IN  /\ call' = c
            /\ failLogs' = IF c.logged THEN failLogs + 1 ELSE failLogs
            /\ netRequests' = IF c.logged THEN netRequests + 1 ELSE netRequests
            /\ commitMessage' = c.value
            /\ display' = c.value
    /\ displayed' = displayed + 1
    /\ prompts' = prompts + 1
    /\ pc' = "Prompting"
    /\ ignoredLines' = 0
    /\ UNCHANGED <<menu, program, argv2, env, API_KEY, diffReads, diff,
                   answers, answer, branch, edits, tempFile, commitCalls,
                   commitArg, committed, fatal, exitCode>>

\* the pending generateCommit settles with response r; main() or the question
\* callback resumes: it stores and prints the candidate and prompts
GenerateSettles ==
    /\ pc \in {"Generating", "Regenerating"}
    /\ \E r \in SessionResponsesTo(call.provider) :
        LET c == Settled(call, r)
        IN  /\ call' = c
            /\ failLogs' = IF c.logged THEN failLogs + 1 ELSE failLogs
            /\ commitMessage' = c.value
            /\ display' = c.value
    /\ displayed' = displayed + 1
    /\ prompts' = prompts + 1
    /\ pc' = "Prompting"
    /\ ignoredLines' = 0
    /\ UNCHANGED <<menu, program, argv2, env, API_KEY, diffReads, diff, netRequests,
                   answers, answer, branch, edits, tempFile, commitCalls,
                   commitArg, committed, fatal, exitCode>>

\* Branch comparing letters case-insensitively
BranchIgnoreCase(line) ==
    LET l == toLowerCase(line)
    IN  IF l = <<"e">> THEN "edit"
        ELSE IF l = <<"r">> THEN "regenerate"
        ELSE IF l = <<"q">> THEN "quit"
        ELSE "commit"

\* Branch without the quit branch
BranchNoQuit(line) ==
    IF line = <<"e">> THEN "edit"
    ELSE IF line = <<"r">> THEN "regenerate"
    ELSE "commit"

\* the if-chain of the question callback
Branch(line) ==
    IF line = <<"e">> THEN "edit"
    ELSE IF line = <<"r">> THEN "regenerate"
    ELSE IF line = <<"q">> THEN "quit"
    ELSE "commit"

\* the question callback receives one input line and takes the branch b
Answered(b) ==
    /\ pc = "Prompting"
    /\ \E line \in Lines : Branch(line) = b /\ answer' = line
    /\ answers' = answers + 1
    /\ branch' = b

\* the question callback, branch answer === "e", up to the blocking editor run
AnswerEdit ==
    /\ Answered("edit")
    /\ edits < MaxEdits
    /\ edits' = edits + 1
    /\ \E written \in BOOLEAN :
          IF written
          THEN /\ tempFile' = [exists |-> TRUE, content |-> commitMessage]
               /\ pc' = "Editing"
               /\ UNCHANGED <<exitCode, fatal>>
          ELSE /\ Exit(1, "Error: writeFileSync")
               /\ UNCHANGED tempFile
    /\ UNCHANGED <<menu, ignoredLines, program, argv2, env, API_KEY, diffReads, diff, call,
                   netRequests, failLogs, commitMessage, displayed, display,
                   prompts, commitCalls, commitArg, committed>>

\* the editor process, while the callback is blocked in execSync, saves a text
EditorWrites ==
    /\ pc = "Editing"
    /\ \E text \in EditorTexts :
          tempFile' = [exists |-> TRUE, content |-> text]
    /\ UNCHANGED <<menu, ignoredLines, program, argv2, env, API_KEY, pc, diffReads, diff, call,
                   netRequests, failLogs, commitMessage, displayed, display,
                   prompts, answers, answer, branch, edits, commitCalls,
                   commitArg, committed, fatal, exitCode>>

\* EditorExits where an unreadable file is reported and the prompt issued again
EditorExitsRetries ==
    /\ pc = "Editing"
    /\ \/ /\ commitMessage' = trim(tempFile.content)
          /\ tempFile' = NoFile
          /\ prompts' = prompts + 1
          /\ pc' = "Prompting"
          /\ UNCHANGED <<exitCode, fatal>>
       \/ /\ Exit(1, "Error: editor")           \* execSync throws
          /\ UNCHANGED <<commitMessage, prompts, tempFile>>
       \/ /\ tempFile' = NoFile                 \* readFileSync throws, no file
          /\ Exit(1, "Error: readFileSync")
          /\ UNCHANGED <<commitMessage, prompts>>
       \/ /\ fatal' = "Error: readFileSync"
          /\ prompts' = prompts + 1
          /\ pc' = "Prompting"
          /\ UNCHANGED <<commitMessage, tempFile, exitCode>>
       \/ /\ commitMessage' = trim(tempFile.content)
          /\ Exit(1, "Error: unlinkSync")       \* unlinkSync throws
          /\ UNCHANGED <<prompts, tempFile>>
    /\ UNCHANGED <<menu, ignoredLines, program, argv2, env, API_KEY, diffReads, diff, call,
                   netRequests, failLogs, displayed, display, answers, answer,
                   branch, edits, commitCalls, commitArg, committed>>

\* EditorExits where the edit branch does not call promptUser() again
EditorExitsEnds ==
    /\ pc = "Editing"
    /\ \/ /\ commitMessage' = trim(tempFile.content)
          /\ tempFile' = NoFile
          /\ Exit(0, "")
          /\ UNCHANGED prompts
       \/ /\ Exit(1, "Error: editor")           \* execSync throws
          /\ UNCHANGED <<commitMessage, prompts, tempFile>>
       \/ /\ tempFile' = NoFile                 \* readFileSync throws, no file
          /\ Exit(1, "Error: readFileSync")
          /\ UNCHANGED <<commitMessage, prompts>>
       \/ /\ Exit(1, "Error: readFileSync")    \* readFileSync throws, file there
          /\ UNCHANGED <<commitMessage, prompts, tempFile>>
       \/ /\ commitMessage' = trim(tempFile.content)
          /\ Exit(1, "Error: unlinkSync")       \* unlinkSync throws
          /\ UNCHANGED <<prompts, tempFile>>
    /\ UNCHANGED <<menu, ignoredLines, program, argv2, env, API_KEY, diffReads, diff, call,
                   netRequests, failLogs, displayed, display, answers, answer,
                   branch, edits, commitCalls, commitArg, committed>>

\* the editor run ends and the callback resumes: it reads, trims and deletes
\* the file and prompts again, unless the editor, the read or the delete throws
EditorExits ==
    /\ pc = "Editing"
    /\ \/ /\ commitMessage' = trim(tempFile.content)
          /\ tempFile' = NoFile
          /\ prompts' = prompts + 1
          /\ pc' = "Prompting"
          /\ UNCHANGED <<exitCode, fatal>>
       \/ /\ Exit(1, "Error: editor")           \* execSync throws
          /\ UNCHANGED <<commitMessage, prompts, tempFile>>
       \/ /\ tempFile' = NoFile                 \* readFileSync throws, no file
          /\ Exit(1, "Error: readFileSync")
          /\ UNCHANGED <<commitMessage, prompts>>
       \/ /\ Exit(1, "Error: readFileSync")    \* readFileSync throws, file there
          /\ UNCHANGED <<commitMessage, prompts, tempFile>>
       \/ /\ commitMessage' = trim(tempFile.content)
          /\ Exit(1, "Error: unlinkSync")       \* unlinkSync throws
          /\ UNCHANGED <<prompts, tempFile>>
    /\ UNCHANGED <<menu, ignoredLines, program, argv2, env, API_KEY, diffReads, diff, call,
                   netRequests, failLogs, displayed, display, answers, answer,
                   branch, edits, commitCalls, commitArg, committed>>

\* AnswerRegenerate that queries the staged diff again before the call
AnswerRegenerateRereads ==
    /\ Answered("regenerate")
    /\ displayed < MaxCalls
    /\ \E d \in Diffs :
        LET c == Invoke(d, LLM_PROVIDER, llmConfig)
        IN  /\ diff' = d
            /\ diffReads' = diffReads + 1
            /\ call' = c
            /\ IF c.status = "rejected"
               THEN /\ Exit(1, "Error: API key is required")
                    /\ UNCHANGED netRequests
               ELSE /\ pc' = "Regenerating"
                    /\ netRequests' = netRequests + 1
                    /\ UNCHANGED <<exitCode, fatal>>
    /\ UNCHANGED <<menu, ignoredLines, program, argv2, env, API_KEY, failLogs,
                   commitMessage, displayed, display, prompts, edits, tempFile,
                   commitCalls, commitArg, committed>>

\* the question callback, branch answer === "r", up to the pending request
AnswerRegenerate ==
    /\ Answered("regenerate")
    /\ displayed < MaxCalls
    /\ LET c == Invoke(diff, LLM_PROVIDER, llmConfig)
       IN  /\ call' = c
           /\ IF c.status = "rejected"
              THEN /\ Exit(1, "Error: API key is required")
                   /\ UNCHANGED netRequests
              ELSE /\ pc' = "Regenerating"
                   /\ netRequests' = netRequests + 1
                   /\ UNCHANGED <<exitCode, fatal>>
    /\ UNCHANGED <<menu, ignoredLines, program, argv2, env, API_KEY, diffReads, diff, failLogs,
                   commitMessage, displayed, display, prompts, edits, tempFile,
                   commitCalls, commitArg, committed>>

\* AnswerQuit where the q branch closes readline but does not exit
AnswerQuitStays ==
    /\ Answered("quit")
    /\ pc' = "Closed"
    /\ UNCHANGED <<menu, ignoredLines, program, argv2, env, API_KEY, diffReads, diff, call,
                   netRequests, failLogs, commitMessage, displayed, display,
                   prompts, edits, tempFile, commitCalls, commitArg, committed,
                   exitCode, fatal>>

\* the question callback, branch answer === "q"
AnswerQuit ==
    /\ Answered("quit")
    /\ Exit(0, "")
    /\ UNCHANGED <<menu, ignoredLines, program, argv2, env, API_KEY, diffReads, diff, call,
                   netRequests, failLogs, commitMessage, displayed, display,
                   prompts, edits, tempFile, commitCalls, commitArg, committed>>

\* the question callback, final else branch, up to the blocking `git commit`
AnswerCommit ==
    /\ Answered("commit")
    /\ commitCalls' = commitCalls + 1
    /\ commitArg' = commitMessage
    /\ pc' = "Committing"
    /\ UNCHANGED <<menu, ignoredLines, program, argv2, env, API_KEY, diffReads, diff, call,
                   netRequests, failLogs, commitMessage, displayed, display,
                   prompts, edits, tempFile, committed, fatal, exitCode>>

\* The shell's reading of the text after `git commit -m `, for the characters
\* that occur in messages here: a double quote opens or closes a quoted part
\* and is removed, whitespace outside quotes ends a word, every other character
\* is taken as it is.  error: the text ends inside a quoted part.
RECURSIVE ShScan(_, _, _, _, _, _)
ShScan(text, i, inQuote, open, word, words) ==
    IF i > Len(text)
    THEN [error |-> inQuote,
          words |-> IF open THEN Append(words, word) ELSE words]
    ELSE IF text[i] = Q
         THEN ShScan(text, i + 1, ~inQuote, TRUE, word, words)
    ELSE IF IsWhitespace(text[i]) /\ ~inQuote
         THEN ShScan(text, i + 1, inQuote, FALSE, <<>>,
                     IF open THEN Append(words, word) ELSE words)
    ELSE ShScan(text, i + 1, inQuote, TRUE, Append(word, text[i]), words)

ShellWords(text) == ShScan(text, 1, FALSE, FALSE, <<>>, <<>>)

\* the template literal `git commit -m "${commitMessage}"`, after `-m `
CommitCommand(msg) == <<Q>> \o msg \o <<Q>>

\* CommitExits prompting again after a failed commit
CommitExitsPromptsAgain ==
    /\ pc = "Committing"
    /\ LET sh == ShellWords(CommitCommand(commitArg))
       IN  \E ok \in BOOLEAN :
             IF ok /\ ~sh.error
             THEN /\ committed' = [done |-> TRUE, message |-> sh.words[1]]
                  /\ Exit(0, "")
                  /\ UNCHANGED prompts
             ELSE /\ committed' = NoCommit
                  /\ pc' = "Prompting"
                  /\ prompts' = prompts + 1
                  /\ UNCHANGED <<fatal, exitCode>>
    /\ UNCHANGED <<menu, ignoredLines, program, argv2, env, API_KEY, diffReads, diff, call,
                   netRequests, failLogs, commitMessage, displayed, display,
                   answers, answer, branch, edits, tempFile,
                   commitCalls, commitArg>>

\* `git commit` ends: a success exits 0, a failure is caught and exits 1; a
\* command line the shell rejects always fails
CommitExits ==
    /\ pc = "Committing"
    /\ LET sh == ShellWords(CommitCommand(commitArg))
       IN  \E ok \in BOOLEAN :
             IF ok /\ ~sh.error
             THEN /\ committed' = [done |-> TRUE, message |-> sh.words[1]]
                  /\ Exit(0, "")
             ELSE /\ committed' = NoCommit
                  /\ Exit(1, "Error: git commit")
    /\ UNCHANGED <<menu, ignoredLines, program, argv2, env, API_KEY, diffReads, diff, call,
                   netRequests, failLogs, commitMessage, displayed, display,
                   prompts, answers, answer, branch, edits, tempFile,
                   commitCalls, commitArg>>

Next ==
    \/ Load
    \/ OpenRepo
    \/ DiffFails
    \/ StartSession
    \/ GenerateSettles
    \/ LineIgnored
    \/ AnswerEdit
    \/ EditorWrites
    \/ EditorExits
    \/ AnswerRegenerate
    \/ AnswerQuit
    \/ AnswerCommit
    \/ CommitExits

Spec == Init /\ [][Next]_vars

\* the session when every request settles (fetch resolves or rejects) and the
\* event loop then runs the continuation of the await
SpecFair == Spec /\ WF_vars(GenerateSettles)

\* the session, with the provider left at its default or set to anthropic,
\* when the script runs on, every provider request, editor run and commit run
\* returns, and the user again and again has the chance to, and then
\* eventually does, enter a line other than e and r
InitLive == Init /\ env.LLM_PROVIDER \in {<<>>, S_anthropic}

SpecLive ==
    /\ InitLive
    /\ [][Next]_vars
    /\ WF_vars(GenerateSettles)
    /\ WF_vars(Load)
    /\ WF_vars(OpenRepo \/ DiffFails \/ StartSession)
    /\ WF_vars(EditorExits)
    /\ WF_vars(CommitExits)
    /\ SF_vars(AnswerQuit \/ AnswerCommit)

\* the start of a session, up to its first provider call, for every provider
\* identifier
InitKeys ==
    /\ program \in {"gity", "ai-commit"}
    /\ argv2 = ""
    /\ env \in [LLM_PROVIDER : Identifiers, OPENAI_API_KEY : KeyValues,
                ANTHROPIC_API_KEY : KeyValues, LLM_MODEL : {undefined},
                LLM_MAX_TOKENS : {<<>>}]
    /\ API_KEY = undefined
    /\ pc = "Load"
    /\ diffReads = 0
    /\ diff = <<>>
    /\ call = IdleCall
    /\ netRequests = 0
    /\ failLogs = 0
    /\ commitMessage = <<>>
    /\ displayed = 0
    /\ display = <<>>
    /\ prompts = 0
    /\ answers = 0
    /\ answer = <<>>
    /\ branch = "none"
    /\ edits = 0
    /\ tempFile = NoFile
    /\ commitCalls = 0
    /\ commitArg = <<>>
    /\ committed = NoCommit
    /\ fatal = ""
    /\ exitCode = NoExit
    /\ ignoredLines = 0
    /\ menu = NoMenu

NextKeys ==
    \/ Load
    \/ DiffFails
    \/ StartSession

SpecKeys == InitKeys /\ [][NextKeys]_vars

\* model outputs with and without whitespace around them
EditRaws ==
    { <<"a">>, <<" ">>, <<" ", "a">>, <<"a", "\n">>, <<" ", "a", "\n">>,
      <<"a", " ", "b">>, <<"\n", "a", " ", "b", " ">>, <<"\t", "\n">>,
      <<Q, " ", "a", Q>>, <<"a", "\t">> }

\* a session at its first prompt, the provider having returned any of EditRaws
InitEdit ==
    /\ program \in {"gity", "ai-commit"}
    /\ argv2 = ""
    /\ env = [LLM_PROVIDER |-> <<>>, OPENAI_API_KEY |-> "sk-key",
              ANTHROPIC_API_KEY |-> undefined, LLM_MODEL |-> undefined,
              LLM_MAX_TOKENS |-> <<>>]
    /\ API_KEY = "sk-key"
    /\ pc = "Prompting"
    /\ diffReads = 1
    /\ diff = <<"+", "a", "\n">>
    /\ \E raw \in EditRaws :
          call = Settled(Invoke(diff, LLM_PROVIDER, llmConfig),
                         BodyFor("OpenAI", TRUE, StrVal(raw)))
    /\ netRequests = 1
    /\ failLogs = 0
    /\ commitMessage = call.value
    /\ displayed = 1
    /\ display = call.value
    /\ prompts = 1
    /\ answers = 0
    /\ answer = <<>>
    /\ branch = "none"
    /\ edits = 0
    /\ tempFile = NoFile
    /\ commitCalls = 0
    /\ commitArg = <<>>
    /\ committed = NoCommit
    /\ fatal = ""
    /\ exitCode = NoExit
    /\ ignoredLines = 0
    /\ menu = NoMenu

\* edits in which the editor is closed without saving anything
NextEdit ==
    \/ AnswerEdit
    \/ EditorExits

SpecEdit == InitEdit /\ [][NextEdit]_vars

\* gity started with the keys set and any LLM_MODEL and LLM_MAX_TOKENS
InitConfig ==
    /\ program = "gity"
    /\ argv2 \in {"", "open"}
    /\ env \in [LLM_PROVIDER : {<<>>, S_anthropic}, OPENAI_API_KEY : {"sk-key"},
                ANTHROPIC_API_KEY : {"sk-key"}, LLM_MODEL : ModelNames,
                LLM_MAX_TOKENS : TokenStrings]
    /\ API_KEY = undefined
    /\ pc = "Load"
    /\ diffReads = 0
    /\ diff = <<>>
    /\ call = IdleCall
    /\ netRequests = 0
    /\ failLogs = 0
    /\ commitMessage = <<>>
    /\ displayed = 0
    /\ display = <<>>
    /\ prompts = 0
    /\ answers = 0
    /\ answer = <<>>
    /\ branch = "none"
    /\ edits = 0
    /\ tempFile = NoFile
    /\ commitCalls = 0
    /\ commitArg = <<>>
    /\ committed = NoCommit
    /\ fatal = ""
    /\ exitCode = NoExit
    /\ ignoredLines = 0
    /\ menu = NoMenu

SpecConfig == InitConfig /\ [][Next]_vars

-----------------------------------------------------------------------------
(* The completion service: showInteractiveMenu()                            *)

GITY_COMMANDS == <<"open", "help", "completion">>

\* names of the commands of a longer menu
ItemNames ==
    GITY_COMMANDS \o <<"c4", "c5", "c6", "c7", "c8", "c9", "c10", "c11",
                       "c12", "c13", "c14">>

\* the menus shown: GITY_COMMANDS itself, and command lists of other lengths
Menus == {GITY_COMMANDS} \cup {SubSeq(ItemNames, 1, n) : n \in 1..MaxItems}

visibleItems == 10

Min(a, b) == IF a < b THEN a ELSE b

Max(a, b) == IF a > b THEN a ELSE b

\* data chunks of stdin in raw mode: the arrows, another escape sequence,
\* Escape alone, an escape sequence of another kind, Enter, and other keys
Keys ==
    { <<27, 91, 65>>, <<27, 91, 66>>, <<27, 91, 67>>, <<27>>, <<27, 79, 65>>,
      <<13>>, <<10>>, <<3>>, <<113>> }

\* key[i] of a Buffer, i counted from 0; -1 stands for undefined
Byte(key, i) == IF i < Len(key) THEN key[i + 1] ELSE -1

\* the number of lines renderMenu prints for the menu m
Rendered(m) ==
    LET endIdx == Min(m.scrollOffset + visibleItems, Len(m.items))
    IN  3 + (endIdx - m.scrollOffset)
          + (IF Len(m.items) > visibleItems THEN 2 ELSE 0)

\* showInteractiveMenu() up to its return: the locals and the first render
InitMenu ==
    /\ program = "completion-service"
    /\ argv2 = ""
    /\ env = [LLM_PROVIDER |-> <<>>, OPENAI_API_KEY |-> undefined,
              ANTHROPIC_API_KEY |-> undefined, LLM_MODEL |-> undefined,
              LLM_MAX_TOKENS |-> <<>>]
    /\ API_KEY = undefined
    /\ pc = "Menu"
    /\ diffReads = 0
    /\ diff = <<>>
    /\ call = IdleCall
    /\ netRequests = 0
    /\ failLogs = 0
    /\ commitMessage = <<>>
    /\ displayed = 0
    /\ display = <<>>
    /\ prompts = 0
    /\ answers = 0
    /\ answer = <<>>
    /\ branch = "none"
    /\ edits = 0
    /\ tempFile = NoFile
    /\ commitCalls = 0
    /\ commitArg = <<>>
    /\ committed = NoCommit
    /\ fatal = ""
    /\ exitCode = NoExit
    /\ ignoredLines = 0
    /\ \E items \in Menus :
          menu = [items |-> items, selectedIndex |-> 0, scrollOffset |-> 0,
                  menuHeight |-> Rendered([items |-> items, scrollOffset |-> 0]),
                  listening |-> TRUE, rawMode |-> TRUE, key |-> <<>>,
                  result |-> Pending]

MenuFrame ==
    UNCHANGED <<program, argv2, env, API_KEY, pc, diffReads, diff, call,
                netRequests, failLogs, commitMessage, displayed, display,
                prompts, answers, answer, branch, edits, tempFile, commitCalls,
                commitArg, committed, fatal, exitCode, ignoredLines>>

\* the menu m with the selection moved and rendered again, on the chunk key
Moved(m, key, sel, off) ==
    LET t == [m EXCEPT !.key = key, !.selectedIndex = sel, !.scrollOffset = off]
    IN  [t EXCEPT !.menuHeight = Rendered(t)]

\* the menu m once the promise is resolved with r, on the chunk key
Resolved(m, key, r) ==
    [m EXCEPT !.key = key, !.rawMode = FALSE, !.listening = FALSE, !.result = r]

\* the data handler, up arrow
MenuUp ==
    /\ menu.listening
    /\ \E key \in Keys :
          /\ Byte(key, 0) = 27 /\ Byte(key, 1) = 91 /\ Byte(key, 2) = 65
          /\ LET sel == Max(0, menu.selectedIndex - 1)
                 off == IF sel < menu.scrollOffset THEN sel ELSE menu.scrollOffset
             IN  menu' = Moved(menu, key, sel, off)
    /\ MenuFrame

\* MenuDown where the window does not follow the selection
MenuDownNoScroll ==
    /\ menu.listening
    /\ \E key \in Keys :
          /\ Byte(key, 0) = 27 /\ Byte(key, 1) = 91 /\ Byte(key, 2) = 66
          /\ LET sel == Min(Len(menu.items) - 1, menu.selectedIndex + 1)
             IN  menu' = Moved(menu, key, sel, menu.scrollOffset)
    /\ MenuFrame

\* the data handler, down arrow
MenuDown ==
    /\ menu.listening
    /\ \E key \in Keys :
          /\ Byte(key, 0) = 27 /\ Byte(key, 1) = 91 /\ Byte(key, 2) = 66
          /\ LET sel == Min(Len(menu.items) - 1, menu.selectedIndex + 1)
                 off == IF sel >= menu.scrollOffset + visibleItems
                        THEN sel - visibleItems + 1 ELSE menu.scrollOffset
             IN  menu' = Moved(menu, key, sel, off)
    /\ MenuFrame

\* the data handler, Escape not followed by "[": the menu is cancelled
MenuEsc ==
    /\ menu.listening
    /\ \E key \in Keys :
          /\ Byte(key, 0) = 27 /\ Byte(key, 1) # 91
          /\ menu' = Resolved(menu, key, Null)
    /\ MenuFrame

\* the data handler, Enter: the item at selectedIndex is chosen
MenuEnter ==
    /\ menu.listening
    /\ \E key \in Keys :
          /\ Byte(key, 0) = 13
          /\ menu' = Resolved(menu, key, menu.items[menu.selectedIndex + 1])
    /\ MenuFrame

\* the data handler, any other chunk: no branch is taken
MenuOtherKey ==
    /\ menu.listening
    /\ \E key \in Keys :
          /\ ~(Byte(key, 0) = 27 /\ Byte(key, 1) # 91)
          /\ ~(Byte(key, 0) = 27 /\ Byte(key, 1) = 91 /\ Byte(key, 2) \in {65, 66})
          /\ Byte(key, 0) # 13
          /\ menu' = [menu EXCEPT !.key = key]
    /\ MenuFrame

NextMenu ==
    \/ MenuUp
    \/ MenuDown
    \/ MenuEsc
    \/ MenuEnter
    \/ MenuOtherKey

SpecMenu == InitMenu /\ [][NextMenu]_vars

-----------------------------------------------------------------------------
(* The provider abstraction called directly: generateCommit(diff,           *)
(* providerName, config) with any diff, provider name and API key.          *)

InitProvider ==
    /\ program = "llm-service"
    /\ argv2 = ""
    /\ env = [LLM_PROVIDER |-> <<>>, OPENAI_API_KEY |-> undefined,
              ANTHROPIC_API_KEY |-> undefined, LLM_MODEL |-> undefined,
              LLM_MAX_TOKENS |-> <<>>]
    /\ API_KEY = undefined
    /\ pc = "Caller"
    /\ diffReads = 0
    /\ diff = <<>>
    /\ call = IdleCall
    /\ netRequests = 0
    /\ failLogs = 0
    /\ commitMessage = <<>>
    /\ displayed = 0
    /\ display = <<>>
    /\ prompts = 0
    /\ answers = 0
    /\ answer = <<>>
    /\ branch = "none"
    /\ edits = 0
    /\ tempFile = NoFile
    /\ commitCalls = 0
    /\ commitArg = <<>>
    /\ committed = NoCommit
    /\ fatal = ""
    /\ exitCode = NoExit
    /\ ignoredLines = 0
    /\ menu = NoMenu

\* a caller invokes generateCommit: the provider throws or sends its request
ProviderInvoke ==
    /\ pc = "Caller"
    /\ \E d \in Diffs, name \in Identifiers, key \in KeyValues :
        LET c == Invoke(d, name, [apiKey |-> key, model |-> undefined,
                                    maxTokens |-> NoNumber])
        IN  /\ call' = c
            /\ IF c.status = "rejected"
               THEN pc' = "Threw" /\ UNCHANGED netRequests
               ELSE pc' = "Awaiting" /\ netRequests' = netRequests + 1
    /\ UNCHANGED <<menu, ignoredLines, program, argv2, env, API_KEY, diffReads, diff, failLogs,
                   commitMessage, displayed, display, prompts, answers, answer,
                   branch, edits, tempFile, commitCalls, commitArg, committed,
                   fatal, exitCode>>

\* the request settles and generateCommit resolves
ProviderSettles ==
    /\ pc = "Awaiting"
    /\ \E r \in ResponsesTo(call.provider) :
        LET c == Settled(call, r)
        IN  /\ call' = c
            /\ failLogs' = IF c.logged THEN failLogs + 1 ELSE failLogs
    /\ pc' = "Returned"
    /\ UNCHANGED <<menu, ignoredLines, program, argv2, env, API_KEY, diffReads, diff, netRequests,
                   commitMessage, displayed, display, prompts, answers, answer,
                   branch, edits, tempFile, commitCalls, commitArg, committed,
                   fatal, exitCode>>

NextProvider ==
    \/ ProviderInvoke
    \/ ProviderSettles

SpecProvider == InitProvider /\ [][NextProvider]_vars

-----------------------------------------------------------------------------
(* Properties *)

Wrapped(s) == s # <<>> /\ s[1] = Q /\ s[Len(s)] = Q

Blank(s) == \A i \in 1..Len(s) : IsWhitespace(s[i])

\* the value the called provider reads from the body of the last response
RawContent ==
    IF call.provider = "Anthropic" THEN call.response.anthropic
    ELSE call.response.openai

\* the last response carried a string as the message content
HasRaw ==
    /\ call.status = "resolved"
    /\ call.response.net = "response"
    /\ call.response.json = "object"
    /\ RawContent.t = "string"

\* the last request failed: network failure, non-2xx status, or a body that is
\* malformed or lacks the message content
ProviderFailure ==
    /\ call.status = "resolved"
    /\ \/ call.response.net = "reject"
       \/ ~call.response.ok
       \/ call.response.json # "object"
       \/ RawContent.t # "string"

\* C1: in PROMPTING one input line decides the next step: "e" edits, "r"
\* regenerates, "q" cancels, and the empty line and every other line commit
\* the current message.
C1_PromptDecides ==
    [][ (pc = "Prompting" /\ answers' = answers + 1) =>
          /\ (answer' = <<"e">> =>
                /\ branch' = "edit"
                /\ commitCalls' = commitCalls
                /\ \/ pc' = "Editing" /\ tempFile'.content = commitMessage
                   \/ pc' = "Exited" /\ exitCode' = 1)
          /\ (answer' = <<"r">> =>
                /\ branch' = "regenerate"
                /\ pc' = "Regenerating"
                /\ commitCalls' = commitCalls)
          /\ (answer' = <<"q">> =>
                /\ branch' = "quit"
                /\ pc' = "Exited"
                /\ commitCalls' = commitCalls)
          /\ (answer' \notin {<<"e">>, <<"r">>, <<"q">>} =>
                /\ branch' = "commit"
                /\ pc' = "Committing"
                /\ commitCalls' = commitCalls + 1
                /\ commitArg' = commitMessage) ]_vars

\* an input line that is no command but looks like one has started the commit
C1_Witness ==
    /\ pc = "Committing"
    /\ answer = <<"E">>
    /\ branch = "commit"
    /\ commitCalls = 1

\* C2: once "q" was answered, after any edits and regenerates, the session has
\* exited with code 0 and no commit was ever invoked.
C2_QuitNoCommit ==
    (answers > 0 /\ answer = <<"q">>) =>
        /\ pc = "Exited"
        /\ exitCode = 0
        /\ commitCalls = 0

\* quit after an edit and a regenerate
C2_Witness ==
    /\ answer = <<"q">>
    /\ exitCode = 0
    /\ edits >= 1
    /\ displayed >= 2

\* C3: a blank staged diff ends the session with exit code 1 before any
\* provider call, prompt or commit.
C3_BlankDiffFatal ==
    (diffReads > 0 /\ Blank(diff)) =>
        /\ pc = "Exited"
        /\ exitCode = 1
        /\ call.status = "idle"
        /\ netRequests = 0
        /\ prompts = 0
        /\ commitCalls = 0

\* a whitespace-only diff was read and rejected
C3_Witness ==
    /\ diff = <<" ", "\n">>
    /\ diffReads = 1
    /\ fatal = "No staged changes found"
    /\ exitCode = 1

\* C4: with an API key, generateCommit never rejects, and on a network
\* failure, a non-2xx response or a malformed or content-less body it resolves
\* to the fallback literal.
C4_FailureGivesFallback ==
    /\ (call.provider # "none" /\ Truthy(call.apiKey)) => call.status # "rejected"
    /\ ProviderFailure => call.value = FALLBACK

\* C5: when the request of a provider call is rejected, the session prints the
\* fallback as the candidate, is in PROMPTING again, and does not exit.
C5_RejectingProvider ==
    [][ (pc \in {"Generating", "Regenerating"} /\ call'.response.net = "reject") =>
          /\ display' = FALLBACK
          /\ commitMessage' = FALLBACK
          /\ displayed' = displayed + 1
          /\ pc' = "Prompting"
          /\ exitCode' = NoExit ]_vars

\* the provider was rejected on the first call and on the regenerate
C5_Witness ==
    /\ pc = "Prompting"
    /\ displayed = 2
    /\ failLogs = 2
    /\ call.response.net = "reject"
    /\ display = FALLBACK

\* C6: whenever generateCommit degrades to the fallback because of a failure,
\* the cause is written to the diagnostic channel.
C6_FallbackIsReported ==
    (ProviderFailure /\ call.value = FALLBACK) => call.logged

\* C7 as stated: the providers return every raw output M with one wrapping pair
\* of double quotes removed if it has one, and M unchanged otherwise.
C7_Original ==
    HasRaw =>
        call.value = IF Len(RawContent.s) >= 2 /\ Wrapped(RawContent.s)
                     THEN SubSeq(RawContent.s, 2, Len(RawContent.s) - 1)
                     ELSE RawContent.s

\* C7: for every non-empty raw output M, either provider returns M without its
\* first and last character when both are double quotes (a lone double quote
\* gives the empty message) and M unchanged otherwise; an empty M gives the
\* fallback; the first candidate the session prints is this value.
C7_StripOnePair ==
    HasRaw =>
        /\ IF RawContent.s = <<>> THEN call.value = FALLBACK
           ELSE IF ~Wrapped(RawContent.s) THEN call.value = RawContent.s
           ELSE IF Len(RawContent.s) = 1 THEN call.value = <<>>
           ELSE <<Q>> \o call.value \o <<Q>> = RawContent.s
        /\ (pc = "Prompting" /\ displayed = 1) => display = call.value

\* the Anthropic provider returned a quoted answer and the session printed it
\* without the quotes as its first candidate
C7_Witness ==
    /\ pc = "Prompting"
    /\ displayed = 1
    /\ call.provider = "Anthropic"
    /\ HasRaw
    /\ RawContent.s = <<Q, "a", Q>>
    /\ display = <<"a">>

C9_MissingKeyFails ==
    (call.provider # "none" /\ call.apiKey \in {undefined, ""}) =>
        /\ call.status = "rejected"
        /\ pc = "Threw"
        /\ netRequests = 0
        /\ call.value # FALLBACK
        /\ failLogs = 0

\* the Anthropic provider was invoked with the empty key and threw
C9_Witness ==
    /\ pc = "Threw"
    /\ call.provider = "Anthropic"
    /\ call.apiKey = ""
    /\ call.status = "rejected"

\* the key of the provider that the registry resolves for LLM_PROVIDER
ResolvedProviderKey ==
    IF getLLMProvider(LLM_PROVIDER) = "Anthropic"
    THEN env.ANTHROPIC_API_KEY
    ELSE env.OPENAI_API_KEY

\* C10: without an API key for the resolved provider, a commit session exits
\* with code 1 before the diff is read and before any provider call, prompt or
\* commit.
C10_MissingKeyFatal ==
    (/\ pc # "Load"
     /\ ~(program = "gity" /\ argv2 = "open")
     /\ ResolvedProviderKey \in {undefined, ""}) =>
        /\ pc = "Exited"
        /\ exitCode = 1
        /\ fatal = "API key not found"
        /\ diffReads = 0
        /\ call.status = "idle"
        /\ netRequests = 0
        /\ prompts = 0
        /\ commitCalls = 0

\* the Anthropic provider is selected, only the OpenAI key is set, and the
\* session has ended at the key check
C10_Witness ==
    /\ pc = "Exited"
    /\ getLLMProvider(LLM_PROVIDER) = "Anthropic"
    /\ env.OPENAI_API_KEY = "sk-key"
    /\ env.ANTHROPIC_API_KEY = ""
    /\ exitCode = 1
    /\ diffReads = 0

\* C11: a confirm invokes the commit once with the current message; a
\* successful commit exits 0, a failed one exits 1, and after a confirm the
\* session neither commits again nor prompts again.
C11_ConfirmCommitsOnce ==
    /\ commitCalls <= 1
    /\ (commitCalls = 1) = (branch = "commit")
    /\ branch = "commit" =>
          /\ pc \in {"Committing", "Exited"}
          /\ commitArg = commitMessage
          /\ pc = "Exited" => exitCode = (IF committed.done THEN 0 ELSE 1)
    /\ committed.done => (branch = "commit" /\ pc = "Exited")

\* the commit failed and the session ended with code 1 after one invocation
C11_Witness ==
    /\ branch = "commit"
    /\ pc = "Exited"
    /\ ~committed.done
    /\ exitCode = 1
    /\ commitCalls = 1
    /\ ~ShellWords(CommitCommand(commitArg)).error

\* C12: the message that the commit records is the candidate, character for
\* character.
C12_MessagePassedExactly ==
    committed.done => committed.message = commitMessage

\* t is s without its leading and trailing whitespace
IsTrimOf(t, s) ==
    /\ \E a, b \in 0..Len(s) :
          /\ a + Len(t) + b = Len(s)
          /\ t = SubSeq(s, a + 1, a + Len(t))
          /\ \A k \in 1..a : IsWhitespace(s[k])
          /\ \A k \in (Len(s) - b + 1)..Len(s) : IsWhitespace(s[k])
    /\ t # <<>> => (~IsWhitespace(t[1]) /\ ~IsWhitespace(t[Len(t)]))

\* the edit step writes the current message to the temporary file; when the
\* editor is done the message is replaced by the trimmed content of the file
\* as the editor left it and the file is removed; a confirm right after the
\* edit interpolates exactly that message into the commit command
EditReplacesMessage ==
    [][ /\ (pc = "Prompting" /\ pc' = "Editing") =>
              tempFile' = [exists |-> TRUE, content |-> commitMessage]
        /\ (pc = "Editing" /\ pc' = "Prompting") =>
              /\ IsTrimOf(commitMessage', tempFile.content)
              /\ ~tempFile'.exists
        /\ (pc = "Prompting" /\ branch = "edit" /\ pc' = "Committing") =>
              /\ commitArg' = commitMessage
              /\ commitMessage' = commitMessage ]_vars

\* C13: after an edit followed at once by a confirm (two answers, one of them
\* the edit) the commit that was made records exactly the message the edit
\* step produced, the trimmed content of the temporary file.
C13_EditedMessageCommitted ==
    (committed.done /\ answers = 2 /\ edits = 1) =>
        committed.message = commitMessage

\* a regenerate in progress can only end in a new prompt (and does, once the
\* request settles); the candidate and the printed message are then the value
\* the last generateCommit call returned, whatever was generated or edited
\* before, and a confirm right after it interpolates that value into the
\* commit command
RegenerateReplaces ==
    /\ [][ /\ (pc = "Prompting" /\ branch' = "regenerate") => pc' = "Regenerating"
           /\ pc = "Regenerating" =>
                 /\ pc' = "Prompting"
                 /\ call'.status = "resolved"
                 /\ commitMessage' = call'.value
                 /\ display' = call'.value
           /\ (pc = "Prompting" /\ branch = "regenerate" /\ pc' = "Committing") =>
                 commitArg' = call.value ]_vars
    /\ [](pc = "Prompting" /\ branch = "regenerate" =>
             commitMessage = call.value /\ display = call.value)
    /\ (pc = "Regenerating") ~> (pc = "Prompting" /\ branch = "regenerate")

\* C14: in a session without edits, a commit made after regenerates records
\* the result of the last provider call.
C14_LastResultCommitted ==
    (committed.done /\ edits = 0 /\ displayed >= 2) =>
        (display = call.value /\ committed.message = call.value)

\* C15: the staged diff is read at most once in a run and exactly once in a
\* session that reached a provider call; from then on the diff, the provider
\* identifier and the key of the config never change, and every provider call,
\* the first and each regenerate, was made with that diff, that identifier and
\* that config.
C15_CapturedOnce ==
    /\ [](/\ diffReads <= 1
          /\ call.status # "idle" =>
                /\ diffReads = 1
                /\ call.diff = diff
                /\ call.name = LLM_PROVIDER
                /\ call.apiKey = llmConfig.apiKey)
    /\ [][diffReads >= 1 =>
             /\ diffReads' = diffReads
             /\ diff' = diff
             /\ env' = env
             /\ API_KEY' = API_KEY]_vars

\* the third call of a session, made after an edit
C15_Witness ==
    /\ pc = "Regenerating"
    /\ displayed = 2
    /\ netRequests = 3
    /\ edits = 1
    /\ diffReads = 1
    /\ call.status = "pending"
    /\ call.diff = <<"+", "a", "\n">>
    /\ call.name = <<"A", "N", "T", "H", "R", "O", "P", "I", "C">>

\* the identifier of the call spells word in some letter case
Spells(word) ==
    /\ Len(call.name) = Len(word)
    /\ \A i \in 1..Len(word) : call.name[i] \in {word[i], UpperOf(word[i])}

\* C16: every identifier resolves to a provider; "openai" in any letter case
\* resolves to the OpenAI provider, "anthropic" in any letter case to the
\* Anthropic provider, and every other identifier to the OpenAI provider.
C16_ResolutionTotal ==
    call.status # "idle" =>
        /\ call.provider \in {"OpenAI", "Anthropic"}
        /\ Spells(S_openai) => call.provider = "OpenAI"
        /\ Spells(S_anthropic) => call.provider = "Anthropic"
        /\ ~Spells(S_openai) /\ ~Spells(S_anthropic) => call.provider = "OpenAI"

\* "aNtHrOpIc" was resolved to the Anthropic provider, which answered
C16_Witness ==
    /\ pc = "Returned"
    /\ call.name = <<"a","N","t","H","r","O","p","I","c">>
    /\ call.provider = "Anthropic"
    /\ call.response.anthropic = StrVal(<<"a">>)
    /\ call.value = <<"a">>

\* diagnostics of the exceptions caught in the question callback
LoopErrors ==
    { "Error: writeFileSync", "Error: editor", "Error: readFileSync",
      "Error: unlinkSync", "Error: git commit", "Error: API key is required" }

\* C17: an exception raised while an answer is handled ends the run: the
\* error is reported, the exit code is 1, no commit was made and no further
\* prompt was issued; in particular an edit step that does not return to the
\* prompt, and a commit command that fails, end the run this way.
C17_LoopErrorFatal ==
    /\ [](fatal \in LoopErrors =>
             /\ pc = "Exited"
             /\ exitCode = 1
             /\ ~committed.done
             /\ answers >= 1
             /\ prompts = answers)
    /\ [][ /\ pc # "Exited"
           /\ (pc \in {"Prompting", "Editing"} /\ branch' = "edit"
                  /\ pc' \notin {"Editing", "Prompting"}) =>
                 (fatal' \in LoopErrors /\ exitCode' = 1)
           /\ (pc = "Committing" /\ ~committed'.done) =>
                 (fatal' \in LoopErrors /\ exitCode' = 1) ]_vars

\* the editor exited with an error after a regenerate: reported, exit code 1,
\* two prompts issued and both answered
C17_Witness ==
    /\ fatal = "Error: editor"
    /\ pc = "Exited"
    /\ exitCode = 1
    /\ displayed = 2
    /\ prompts = 2
    /\ answers = 2

\* C18: whenever the edit step ends, by returning to the prompt or by
\* aborting, the temporary file no longer exists.
C18_CleanupGuaranteed ==
    [][(pc = "Editing" /\ pc' # "Editing") => ~tempFile'.exists]_vars

\* C19: whenever the session is waiting at the prompt the temporary file does
\* not exist.
C19_NoFileWhilePrompting ==
    pc = "Prompting" => ~tempFile.exists

\* regenerate inputs handled so far: the answers that were neither an edit,
\* nor a confirm, nor the quit
RegeneratesHandled ==
    answers - edits - commitCalls - (IF branch = "quit" THEN 1 ELSE 0)

\* C20: a generateCommit invocation with a key sends one request, and nothing
\* else does: the step that makes the first call and each step that handles a
\* regenerate input add exactly one request, every other step (the request
\* settling with any outcome included) adds none; so once the first call is
\* made the requests of the session number one plus the regenerate inputs
\* handled, and each result shown took one request.
C20_OneRequestPerCall ==
    /\ [][ netRequests' = netRequests +
             (IF call'.status = "pending" /\
                 (call.status = "idle" \/
                    (answers' = answers + 1 /\ branch' = "regenerate"))
              THEN 1 ELSE 0) ]_vars
    /\ [](/\ call.status = "idle" => netRequests = 0
          /\ call.status # "idle" => netRequests = 1 + RegeneratesHandled
          /\ pc = "Prompting" => netRequests = displayed)

\* three calls whose requests all failed: three requests were sent
C20_Witness ==
    /\ pc = "Prompting"
    /\ displayed = 3
    /\ failLogs = 3
    /\ call.response.net = "reject"
    /\ netRequests = 3
    /\ RegeneratesHandled = 2

\* C21: the request of every provider call carries config.maxTokens as
\* max_tokens whenever config.maxTokens is present and 50 otherwise, and
\* config.model as model whenever config.model is present and the provider's
\* default model otherwise.
C21_OverridesHonored ==
    call.status = "pending" =>
        /\ call.request.max_tokens =
              (IF llmConfig.maxTokens # NoNumber THEN llmConfig.maxTokens
               ELSE Num(50))
        /\ call.request.model =
              (IF llmConfig.model # undefined THEN llmConfig.model
               ELSE IF call.provider = "OpenAI" THEN "gpt-4"
               ELSE "claude-3-haiku-20240307")

\* C22: an edit or a regenerate in progress ends in a new prompt or in a fatal
\* error, never otherwise; at every prompt each of the four choices can be
\* taken (edit and regenerate within the bounds of the model); and a session
\* that has prompted ends only by a confirm, by a quit or by a fatal error.
C22_ReentrantPrompt ==
    /\ [][ /\ (pc \in {"Editing", "Regenerating"} /\ pc' # pc) =>
                 \/ pc' = "Prompting" /\ prompts' = prompts + 1 /\ fatal' = ""
                 \/ pc' = "Exited" /\ fatal' \in LoopErrors
           /\ (prompts >= 1 /\ pc # "Exited" /\ pc' = "Exited") =>
                 \/ branch' = "commit" /\ pc = "Committing"
                 \/ branch' = "quit" /\ pc = "Prompting" /\ exitCode' = 0
                 \/ fatal' \in LoopErrors ]_vars
    /\ [](pc = "Prompting" =>
             /\ ENABLED AnswerCommit
             /\ ENABLED AnswerQuit
             /\ edits < MaxEdits => ENABLED AnswerEdit
             /\ displayed < MaxCalls => ENABLED AnswerRegenerate)

\* the prompt after an edit, a regenerate and another edit
C22_Witness ==
    /\ pc = "Prompting"
    /\ answers = 3
    /\ edits = 2
    /\ displayed = 2
    /\ prompts = 4
    /\ branch = "edit"
    /\ call.value = <<Q, "a">>
    /\ commitMessage = <<"b">>

\* provider requests sent and not yet settled
InFlight == netRequests - displayed

\* prompts issued and not yet answered
PendingPrompts == prompts - answers

\* C23: at most one request is in flight and at most one prompt is pending,
\* and exactly while the session is waiting for it; while a request, the editor
\* or the commit is outstanding no answer is handled and no provider call,
\* edit or commit is started; a line that arrives while a request is in flight
\* changes nothing else.
C23_OneOutstanding ==
    /\ [](/\ InFlight \in {0, 1}
          /\ PendingPrompts \in {0, 1}
          /\ (InFlight = 1) = (pc \in {"Generating", "Regenerating"})
          /\ (PendingPrompts = 1) = (pc = "Prompting")
          /\ pc = "Editing" => (edits >= 1 /\ branch = "edit")
          /\ pc = "Committing" => (commitCalls = 1 /\ branch = "commit"))
    /\ [][ /\ pc \in {"Generating", "Regenerating", "Editing", "Committing"} =>
                 /\ answers' = answers
                 /\ netRequests' = netRequests
                 /\ edits' = edits
                 /\ commitCalls' = commitCalls
                 /\ pc' \in {pc, "Prompting", "Exited"}
           /\ ignoredLines' > ignoredLines =>
                 /\ pc' = pc
                 /\ call' = call
                 /\ commitMessage' = commitMessage
                 /\ tempFile' = tempFile
                 /\ committed' = committed ]_vars

\* a line was typed while the regenerate request was in flight
C23_Witness ==
    /\ pc = "Regenerating"
    /\ ignoredLines = 1
    /\ netRequests = 2
    /\ displayed = 1
    /\ call.status = "pending"

\* C24: when gity is run with the command "open" the missing key is not
\* fatal, the staged diff is never read, no provider is called, no prompt is
\* issued, no editor is run and nothing is committed.
C24_OpenIsNoSession ==
    IsOpenCommand =>
        /\ fatal # "API key not found"
        /\ diffReads = 0
        /\ call = IdleCall
        /\ netRequests = 0
        /\ displayed = 0
        /\ prompts = 0
        /\ answers = 0
        /\ edits = 0
        /\ commitCalls = 0
        /\ ~committed.done
        /\ pc \in {"Load", "Main", "Exited"}

\* gity open ran to its end with no API key in the environment
C24_Witness ==
    /\ IsOpenCommand
    /\ ~Truthy(API_KEY)
    /\ env.OPENAI_API_KEY = undefined
    /\ env.ANTHROPIC_API_KEY = undefined
    /\ pc = "Exited"
    /\ exitCode = 0

\* C25: when every provider call, editor run and commit run returns and the
\* user eventually enters a line other than e and r, the process exits.
C25_Terminates == <>(pc = "Exited")

\* the process has exited after an edit, a regenerate and a quit
C25_Witness ==
    /\ pc = "Exited"
    /\ edits = 1
    /\ displayed = 2
    /\ answers = 3
    /\ branch = "quit"
    /\ exitCode = 0

\* C26: the commit command is run at most once in a session, and only by the
\* step that handles an input line other than e, r and q at the prompt, after
\* a provider call has returned a candidate; never during an edit or a
\* regenerate, and never after a quit.
C26_CommitOnlyOnConfirm ==
    /\ [](/\ commitCalls <= 1
          /\ branch = "quit" => (commitCalls = 0 /\ ~committed.done)
          /\ committed.done => commitCalls = 1)
    /\ [][ commitCalls' # commitCalls =>
             /\ commitCalls = 0
             /\ commitCalls' = 1
             /\ pc = "Prompting"
             /\ pc' = "Committing"
             /\ answers' = answers + 1
             /\ answer' \notin {<<"e">>, <<"r">>, <<"q">>}
             /\ displayed >= 1
             /\ call.status = "resolved"
             /\ InFlight = 0 ]_vars

\* the unrecognised line y at the first prompt ran the commit
C26_Witness ==
    /\ pc = "Committing"
    /\ answer = <<"y">>
    /\ answers = 1
    /\ displayed = 1
    /\ commitCalls = 1
    /\ commitArg = call.value

\* the identifier in LLM_PROVIDER spells anthropic in some letter case
NamesAnthropic ==
    /\ Len(LLM_PROVIDER) = Len(S_anthropic)
    /\ \A i \in 1..Len(S_anthropic) :
          LLM_PROVIDER[i] \in {S_anthropic[i], UpperOf(S_anthropic[i])}

\* C27: the key the session reads is ANTHROPIC_API_KEY when the identifier
\* spells anthropic in any letter case and OPENAI_API_KEY for every other
\* identifier, and it is the key of the provider that getLLMProvider resolves
\* for the identifier; a provider call made by the session is made with that
\* key, which is not missing, and is not rejected.
C27_KeyMatchesProvider ==
    /\ pc # "Load" =>
          /\ API_KEY = (IF NamesAnthropic THEN env.ANTHROPIC_API_KEY
                        ELSE env.OPENAI_API_KEY)
          /\ API_KEY = ResolvedProviderKey
    /\ call.status # "idle" =>
          /\ call.status = "pending"
          /\ call.name = LLM_PROVIDER
          /\ call.apiKey = (IF call.provider = "Anthropic"
                            THEN env.ANTHROPIC_API_KEY ELSE env.OPENAI_API_KEY)
          /\ call.apiKey \notin {undefined, ""}

\* AnThRoPiC with only the Anthropic key set: the call is made with that key
C27_Witness ==
    /\ pc = "Generating"
    /\ env.LLM_PROVIDER = <<"A","n","T","h","R","o","P","i","C">>
    /\ env.OPENAI_API_KEY = undefined
    /\ env.ANTHROPIC_API_KEY = "sk-key"
    /\ call.provider = "Anthropic"
    /\ call.apiKey = "sk-key"
    /\ call.status = "pending"

\* C28: whatever the response, the message generateCommit returns is not
\* empty.
C28_NeverEmpty ==
    call.status = "resolved" => call.value # <<>>

\* s neither starts nor ends with whitespace
NoOuterWhitespace(s) ==
    s # <<>> => (~IsWhitespace(s[1]) /\ ~IsWhitespace(s[Len(s)]))

\* C29: an edit in which the editor leaves the file as written replaces the
\* candidate m by m without its leading and trailing whitespace; the candidate
\* is unchanged exactly when m has none; and a second such edit changes nothing.
C29_NoOpEditTrims ==
    /\ [][ (pc = "Editing" /\ pc' = "Prompting") =>
             /\ tempFile.content = commitMessage
             /\ IsTrimOf(commitMessage', commitMessage)
             /\ (commitMessage' = commitMessage) = NoOuterWhitespace(commitMessage)
             /\ edits = 2 => commitMessage' = commitMessage ]_vars
    /\ []((pc = "Prompting" /\ edits >= 1) => NoOuterWhitespace(commitMessage))

\* the provider returned " a\n"; after two edits without a change the
\* candidate is "a"
C29_Witness ==
    /\ pc = "Prompting"
    /\ edits = 2
    /\ call.value = <<" ", "a", "\n">>
    /\ commitMessage = <<"a">>
    /\ ~tempFile.exists

\* C30: in the command menu the selection is always an item of the menu and
\* inside the visible window; Enter resolves the menu with the name of the
\* selected item, Escape alone resolves it with null, every other key leaves
\* it unresolved, and once it is resolved nothing changes any more.
C30_MenuSelectionValid ==
    /\ [](menu.items # <<>> =>
             /\ 0 <= menu.selectedIndex
             /\ menu.selectedIndex < Len(menu.items)
             /\ 0 <= menu.scrollOffset
             /\ menu.scrollOffset <= menu.selectedIndex
             /\ menu.selectedIndex < menu.scrollOffset + visibleItems
             /\ menu.listening = (menu.result = Pending))
    /\ [][ /\ menu.result # Pending => menu' = menu
           /\ (menu.result = Pending /\ menu' # menu) =>
                 /\ menu'.items = menu.items
                 /\ menu'.key = <<13>> =>
                       /\ menu'.result = menu.items[menu.selectedIndex + 1]
                       /\ menu'.selectedIndex = menu.selectedIndex
                 /\ menu'.key = <<27>> => menu'.result = Null
                 /\ menu'.key \notin {<<13>>, <<27>>, <<27, 79, 65>>} =>
                       menu'.result = Pending ]_vars

\* in a menu of twelve commands the last one, scrolled into view, was chosen
C30_Witness ==
    /\ Len(menu.items) = 12
    /\ menu.selectedIndex = 11
    /\ menu.scrollOffset = 2
    /\ menu.key = <<13>>
    /\ menu.result = "c12"
    /\ ~menu.listening

=============================================================================
